---- MODULE Spec2Model ----
(***************************************************************************)
(* A model of market-runner (main.go): the per-market loop of main, the    *)
(* tag-based partitioning of the SQL file (parseMarketSQL) and the         *)
(* splitter/executor executeScript.                                        *)
(*                                                                         *)
(* Text is modelled as a sequence of one-character strings, so that the    *)
(* byte-wise scan of executeScript can be followed index by index.  Go's   *)
(* 0-based index i is the 1-based index i here.                            *)
(***************************************************************************)
EXTENDS Integers, Sequences, FiniteSets, TLC

\* ------------------------------------------------------------------ bounds
\* Longest script the splitter is run on in SplitSpec.
MaxLen == 6
\* Most markets in the configuration.
MaxMarkets == 2
\* Most rows a SELECT delivers.
MaxRows == 2

\* ------------------------------------------------------------ text helpers
\* The characters strings.TrimSpace removes that occur in the model.
SpaceChars == {" ", "\n", "\t", "\r"}

IsSpace(c) == c \in SpaceChars

\* s[from..] (Go: s[from-1:]).
Suffix(s, from) == SubSeq(s, from, Len(s))

\* strings.HasPrefix(s, p)
HasPrefix(s, p) == Len(s) >= Len(p) /\ SubSeq(s, 1, Len(p)) = p

\* strings.TrimPrefix(s, p)
TrimPrefix(s, p) == IF HasPrefix(s, p) THEN Suffix(s, Len(p) + 1) ELSE s

RECURSIVE TrimLeft(_)
TrimLeft(s) ==
    IF s # <<>> /\ IsSpace(Head(s)) THEN TrimLeft(Tail(s)) ELSE s

RECURSIVE TrimRight(_)
TrimRight(s) ==
    IF s # <<>> /\ IsSpace(s[Len(s)])
    THEN TrimRight(SubSeq(s, 1, Len(s) - 1))
    ELSE s

\* A trim that forgets the trailing side.
TrimSpaceLeftOnly(s) == TrimLeft(s)

\* strings.TrimSpace(s)
TrimSpace(s) == TrimRight(TrimLeft(s))

\* strings.Join(parts, sep)
RECURSIVE Join(_, _)
Join(parts, sep) ==
    IF parts = <<>> THEN <<>>
    ELSE IF Len(parts) = 1 THEN parts[1]
    ELSE parts[1] \o sep \o Join(Tail(parts), sep)

\* The two-character marker of a dollar-quoted block.
DollarMarker == <<"$", "$">>

\* ------------------------------------------------------------------ state
VARIABLES
    cfg,         \* cfg.Markets: the market names, in configuration order
    commitFlag,  \* *commitFlag
    sqlFile,     \* the lines of the SQL file
    driver,      \* which sql.Result introspections the driver supports
    marketSQLs,  \* parseMarketSQL's map: tag -> script
    pc,          \* where main is
    mi,          \* index in cfg.Markets of the market being processed
    tableData,   \* the report rows <<market, query, result>>
    txCalls,     \* per market index, the calls its transaction received
    script,      \* executeScript: the script argument
    i,           \* executeScript: the scan index
    sb,          \* executeScript: the strings.Builder
    inDollar,    \* executeScript: inside a $$ block
    stmts,       \* executeScript: the statements split so far
    si,          \* executeScript: index of the next statement to run
    results,     \* executeScript: the QueryResults so far
    execErr,     \* main: whether executeScript returned an error
    rendered,    \* whether the table was written
    delivered    \* executeScript: what the rows of the last tx.Query held

vars == <<cfg, commitFlag, sqlFile, driver, marketSQLs, pc, mi, tableData, txCalls,
          script, i, sb, inDollar, stmts, si, results, execErr, rendered,
          delivered>>

inputVars == <<cfg, commitFlag, sqlFile, driver, marketSQLs>>
scanVars == <<script, i, sb, inDollar, stmts>>

\* ------------------------------------------------------------------ inputs
ALL == <<"A", "L", "L">>
MY == <<"M", "Y">>
SG == <<"S", "G">>

TH == <<"T", "H">>

\* The market names a configuration may list.
Names == {MY, SG, TH}

\* cfg.Markets: one to MaxMarkets markets, each listed once.
Configs ==
    UNION {{c \in [1..n -> Names] : \A a, b \in 1..n : c[a] = c[b] => a = b}
           : n \in 1..MaxMarkets}

TagMY == <<"-", "-", " ", "M", "Y">>
LineABC == <<"a", ";", "b", ";", "c">>
LineEmptySeg == <<"a", ";", ";", "b", ";">>
LineDollar == <<"$", "$", "a", ";", "b", "$", "$", ";">>
LineSelect == <<"s", "e", "L", "E", "C", "T", ";", " ", "a">>
LineBlank == <<" ">>

\* The SQL files main is run on, each given by its lines
\* (strings.Split(data, "\n")); the empty file is the one line "".
SqlFiles ==
    { << <<>> >>,
      <<LineBlank, LineEmptySeg>>,
      <<LineABC>>,
      <<TagMY, LineDollar>>,
      <<TagMY>>,
      <<LineABC, TagMY, LineSelect>> }

\* Which of the two introspections of sql.Result the driver supports.
Drivers == [lastInsertId : BOOLEAN, rowsAffected : BOOLEAN]

\* What one delivered row holds: a scanned value, nothing because
\* rows.Scan failed, or a float json.Marshal cannot encode.
RowKinds == {"val", "scanErr", "NaN"}

\* The characters of the scripts the splitter is checked on.
Chars == {"a", ";", "$", " "}

\* Longer scripts the splitter is also run on: the README's dollar-quoted
\* shape and a script of three padded statements.
SampleScripts == {LineDollar, <<"a", " ", ";", " ", "a", ";", "a", " ", ";">>}

\* Every script of at most MaxLen characters.
Scripts == UNION {[1..n -> Chars] : n \in 0..MaxLen}

\* --------------------------------------------------------- parseMarketSQL
LineTag(line) == TrimSpace(TrimPrefix(TrimSpace(line), <<"-", "-">>))

IsTagLine(line) ==
    HasPrefix(TrimSpace(line), <<"-", "-">>) /\ LineTag(line) # <<>>

AppendTo(m, key, line) ==
    IF key \in DOMAIN m
    THEN [m EXCEPT ![key] = Append(@, line)]
    ELSE m @@ (key :> <<line>>)

RECURSIVE ParseLines(_, _, _, _)
ParseLines(lines, k, currentMarket, sqlByMarket) ==
    IF k > Len(lines) THEN sqlByMarket
    ELSE IF IsTagLine(lines[k])
         THEN ParseLines(lines, k + 1, LineTag(lines[k]), sqlByMarket)
         ELSE ParseLines(lines, k + 1, currentMarket,
                         AppendTo(sqlByMarket, currentMarket, lines[k]))

parseMarketSQL(lines) ==
    LET sqlByMarket == ParseLines(lines, 1, ALL, [x \in {} |-> <<>>])
    IN  [m \in DOMAIN sqlByMarket |-> Join(sqlByMarket[m], <<"\n">>)]

\* ---------------------------------------------------------------- selectRe
\* regexp `(?i)^\s*SELECT`
ReSpaceChars == {" ", "\t", "\n", "\r"}

RECURSIVE SkipReSpace(_)
SkipReSpace(s) ==
    IF s # <<>> /\ Head(s) \in ReSpaceChars THEN SkipReSpace(Tail(s)) ELSE s

FoldPairs == {<<"S", "s">>, <<"E", "e">>, <<"L", "l">>, <<"C", "c">>, <<"T", "t">>}

ToLower(c) ==
    IF \E p \in FoldPairs : p[1] = c
    THEN (CHOOSE p \in FoldPairs : p[1] = c)[2]
    ELSE c

SelectWord == <<"s", "e", "l", "e", "c", "t">>

\* The pattern without the (?i) flag.
selectReCaseSensitive(stmt) ==
    LET t == SkipReSpace(stmt)
    IN  /\ Len(t) >= Len(SelectWord)
        /\ \A k \in 1..Len(SelectWord) : t[k] = SelectWord[k]

selectRe(stmt) ==
    LET t == SkipReSpace(stmt)
    IN  /\ Len(t) >= Len(SelectWord)
        /\ \A k \in 1..Len(SelectWord) : ToLower(t[k]) = SelectWord[k]

\* ------------------------------------------------------------ report rows
NoText == <<>>

Row(market, query, result) == <<market, query, result>>

\* The value of `data` before anything is assigned to it.
Nil == [kind |-> "nil"]

\* json.Marshal of one row value.
JsonValue(v) == IF v = "null" THEN "null" ELSE "\"v\""

RECURSIVE JsonRows(_)
JsonRows(rows) ==
    IF rows = <<>> THEN <<>>
    ELSE IF Len(rows) = 1 THEN <<"{", JsonValue(rows[1]), "}">>
    ELSE <<"{", JsonValue(rows[1]), "}", ",">> \o JsonRows(Tail(rows))

\* json.Marshal(qr.Data) fails on a float that is not a number.
jsonFails(data) ==
    data.kind = "rows" /\ \E k \in 1..Len(data.rows) : data.rows[k] = "NaN"

jsonMarshal(data) ==
    CASE data.kind = "nil" -> <<"null">>
      [] data.kind = "rows" -> <<"[">> \o JsonRows(data.rows) \o <<"]">>
      [] data.kind = "lastInsertId" -> <<"{", "\"lastInsertId\"", ":", "id", "}">>
      [] data.kind = "rowsAffected" -> <<"{", "\"rowsAffected\"", ":", "cnt", "}">>
      [] data.kind = "executed" -> <<"\"executed\"">>

ResultCell(data) ==
    IF jsonFails(data) THEN <<"\"json error\"">> ELSE jsonMarshal(data)

RECURSIVE ResultRows(_, _)
ResultRows(market, rs) ==
    IF rs = <<>> THEN <<>>
    ELSE <<Row(market, rs[1].Stmt, ResultCell(rs[1].Data))>>
         \o ResultRows(market, Tail(rs))

\* ------------------------------------------------------------------- Init
NoCalls == [k \in 1..MaxMarkets + 1 |-> <<>>]

Init ==
    /\ cfg \in Configs
    /\ commitFlag \in BOOLEAN
    /\ sqlFile \in SqlFiles
    /\ driver \in Drivers
    /\ marketSQLs = parseMarketSQL(sqlFile)
    /\ pc = "loop"
    /\ mi = 0
    /\ tableData = <<>>
    /\ txCalls = NoCalls
    /\ script = <<>>
    /\ i = 1
    /\ sb = <<>>
    /\ inDollar = FALSE
    /\ stmts = <<>>
    /\ si = 1
    /\ results = <<>>
    /\ execErr = FALSE
    /\ rendered = FALSE
    /\ delivered = <<>>

\* ------------------------------------------------------------------- main
\* The script main picks for a market.
HasSQL(name) == name \in DOMAIN marketSQLs \/ ALL \in DOMAIN marketSQLs

\* The ALL block preferred over the market's own block.
SqlTextForAllFirst(name) ==
    IF ALL \in DOMAIN marketSQLs THEN marketSQLs[ALL] ELSE marketSQLs[name]

SqlTextFor(name) ==
    IF name \in DOMAIN marketSQLs THEN marketSQLs[name] ELSE marketSQLs[ALL]

ResetLocals ==
    /\ i' = 1
    /\ sb' = <<>>
    /\ inDollar' = FALSE
    /\ stmts' = <<>>
    /\ si' = 1
    /\ results' = <<>>
    /\ execErr' = FALSE
    /\ delivered' = <<>>

\* for _, m := range cfg.Markets: a market with a script.
SelectSQL ==
    /\ pc = "loop"
    /\ mi < Len(cfg)
    /\ HasSQL(cfg[mi + 1])
    /\ mi' = mi + 1
    /\ script' = SqlTextFor(cfg[mi + 1])
    /\ ResetLocals
    /\ pc' = "open"
    /\ UNCHANGED <<inputVars, tableData, txCalls, rendered>>

\* for _, m := range cfg.Markets: a market with neither its own nor the ALL block.
NoSQL ==
    /\ pc = "loop"
    /\ mi < Len(cfg)
    /\ ~HasSQL(cfg[mi + 1])
    /\ mi' = mi + 1
    /\ script' = <<>>
    /\ ResetLocals
    /\ tableData' = Append(tableData,
           Row(cfg[mi + 1], NoText, <<"no SQL defined for this market">>))
    /\ pc' = "loop"
    /\ UNCHANGED <<inputVars, txCalls, rendered>>

\* A connect error that ends the whole run.
AfterOpenErrorStop == "done"

\* continue, after a connect error
AfterOpenError == "loop"

\* sql.Open
Open ==
    /\ pc = "open"
    /\ \E err \in BOOLEAN :
         IF err
         THEN /\ tableData' = Append(tableData,
                     Row(cfg[mi], NoText, <<"connect error">>))
              /\ pc' = AfterOpenError
         ELSE /\ tableData' = tableData
              /\ pc' = "begin"
    /\ UNCHANGED <<inputVars, mi, txCalls, script, i, sb, inDollar, stmts,
                   si, results, execErr, rendered, delivered>>

Call(op, stmt, err) == [op |-> op, stmt |-> stmt, err |-> err]

\* db.Begin, and the entry of executeScript
Begin ==
    /\ pc = "begin"
    /\ \E err \in BOOLEAN :
         IF err
         THEN /\ tableData' = Append(tableData,
                     Row(cfg[mi], NoText, <<"begin error">>))
              /\ txCalls' = txCalls
              /\ pc' = "loop"
         ELSE /\ tableData' = tableData
              /\ txCalls' = [txCalls EXCEPT ![mi] = <<Call("Begin", NoText, FALSE)>>]
              /\ pc' = "scan"
    /\ UNCHANGED <<inputVars, mi, script, i, sb, inDollar, stmts,
                   si, results, execErr, rendered, delivered>>

\* ---------------------------------------------------------- executeScript
\* strings.HasPrefix(script[i:], "$$")
AtMarker(s, k) == HasPrefix(Suffix(s, k), DollarMarker)

\* A splitter that cuts at every semicolon.
EndsStatementAnywhere(c, inD) == c = ";"

\* c == ';' && !inDollar
EndsStatement(c, inD) == c = ";" /\ ~inD

\* A marker written as one character.
MarkerTextShort == <<"$">>

\* sb.WriteString("$$")
MarkerText == DollarMarker

\* A cut that leaves the separator out of the statement.
EmitWithoutSeparator(st, buf) == Append(st, SubSeq(buf, 1, Len(buf) - 1))

\* stmts = append(stmts, sb.String())
Emit(st, buf) == Append(st, buf)

\* A marker that switches the block on and never off.
ToggleOn(inD) == TRUE

\* inDollar = !inDollar
Toggle(inD) == ~inD

\* One turn of the scan loop.
ScanStep ==
    /\ pc = "scan"
    /\ i <= Len(script)
    /\ IF AtMarker(script, i)
       THEN /\ inDollar' = Toggle(inDollar)
            /\ sb' = sb \o MarkerText
            /\ i' = i + 2
            /\ stmts' = stmts
       ELSE LET c == script[i]
                buf == Append(sb, c)
            IN  /\ inDollar' = inDollar
                /\ i' = i + 1
                /\ IF EndsStatement(c, inDollar)
                   THEN stmts' = Emit(stmts, buf) /\ sb' = <<>>
                   ELSE stmts' = stmts /\ sb' = buf
    /\ UNCHANGED <<inputVars, pc, mi, tableData, txCalls, script,
                   si, results, execErr, rendered, delivered>>

\* A flush that keeps the buffer untrimmed and unconditionally.
FlushTailRaw(st, buf) == Append(st, buf)

\* if s := strings.TrimSpace(sb.String()); s != "" { stmts = append(stmts, s) }
FlushTail(st, buf) ==
    LET s == TrimSpace(buf) IN IF s # <<>> THEN Append(st, s) ELSE st

\* The end of the scan and make([]QueryResult, 0, len(stmts)).
Flush ==
    /\ pc = "scan"
    /\ i > Len(script)
    /\ stmts' = FlushTail(stmts, sb)
    /\ results' = <<>>
    /\ si' = 1
    /\ pc' = "exec"
    /\ UNCHANGED <<inputVars, mi, tableData, txCalls, script, i, sb,
                   inDollar, execErr, rendered, delivered>>

\* What tx.Query and the row loop can deliver.
RowSets == UNION {[1..n -> RowKinds] : n \in 0..MaxRows}

RowValue(kind) == IF kind = "scanErr" THEN "null" ELSE kind

\* The row loop left at the first row that cannot be scanned.
RowsDataStopAtScanErr(rows) ==
    LET bad == {k \in 1..Len(rows) : rows[k] = "scanErr"}
        n == IF bad = {} THEN Len(rows)
             ELSE (CHOOSE k \in bad : \A j \in bad : k <= j) - 1
    IN  IF n = 0 THEN Nil
        ELSE [kind |-> "rows", rows |-> [k \in 1..n |-> RowValue(rows[k])]]

\* data after the rows.Next loop
RowsData(rows) ==
    IF rows = <<>> THEN Nil
    ELSE [kind |-> "rows", rows |-> [k \in 1..Len(rows) |-> RowValue(rows[k])]]

\* The affected-row count preferred over the generated identifier.
ExecDataCountFirst ==
    IF driver.rowsAffected THEN [kind |-> "rowsAffected"]
    ELSE IF driver.lastInsertId THEN [kind |-> "lastInsertId"]
    ELSE [kind |-> "executed"]

\* data after tx.Exec succeeded
ExecData ==
    IF driver.lastInsertId THEN [kind |-> "lastInsertId"]
    ELSE IF driver.rowsAffected THEN [kind |-> "rowsAffected"]
    ELSE [kind |-> "executed"]

QueryResult(stmt, data) == [Stmt |-> stmt, Data |-> data]

\* Where the statement loop goes after a failed statement.
AfterStmtErrorContinue(k) == [pc |-> "exec", si |-> k + 1, execErr |-> FALSE]

\* if err != nil { return results, err }
AfterStmtError(k) == [pc |-> "failed", si |-> k, execErr |-> TRUE]

\* stmt = strings.TrimSpace(stmt)
StmtText(st, k) == TrimSpace(st[k])

\* A result put in front of the earlier ones.
PrependResult(rs, qr) == <<qr>> \o rs

\* results = append(results, QueryResult{Stmt: stmt, Data: data})
AppendResult(rs, qr) == Append(rs, qr)

\* One turn of the statement loop.
StepStmt ==
    /\ pc = "exec"
    /\ si <= Len(stmts)
    /\ LET stmt == StmtText(stmts, si)
       IN  IF stmt = <<>>
           THEN /\ si' = si + 1
                /\ UNCHANGED <<txCalls, results, execErr, pc, delivered>>
           ELSE \E err \in BOOLEAN, rows \in RowSets :
                  LET isSelect == selectRe(stmt)
                      op == IF isSelect THEN "Query" ELSE "Exec"
                      data == IF isSelect THEN RowsData(rows) ELSE ExecData
                  IN  /\ isSelect \/ rows = <<>>
                      /\ ~err \/ rows = <<>>
                      /\ txCalls' = [txCalls EXCEPT
                                       ![mi] = Append(@, Call(op, stmt, err))]
                      /\ delivered' = rows
                      /\ IF err
                         THEN /\ results' = results
                              /\ pc' = AfterStmtError(si).pc
                              /\ si' = AfterStmtError(si).si
                              /\ execErr' = AfterStmtError(si).execErr
                         ELSE /\ results' = AppendResult(results, QueryResult(stmt, data))
                              /\ si' = si + 1
                              /\ UNCHANGED <<execErr, pc>>
    /\ UNCHANGED <<inputVars, mi, tableData, script, i, sb, inDollar,
                   stmts, rendered>>

\* return results, nil
ReturnOk ==
    /\ pc = "exec"
    /\ si > Len(stmts)
    /\ execErr' = FALSE
    /\ pc' = "finalize"
    /\ UNCHANGED <<inputVars, mi, tableData, txCalls, script, i, sb,
                   inDollar, stmts, si, results, rendered, delivered>>

\* ------------------------------------------------------ main, continued
\* A failure path that forgets the transaction.
FailedCallsNone == <<>>

\* rbErr := tx.Rollback() after execErr
FailedCalls == <<"Rollback">>

\* A failure row that names the statement that failed.
FailureQueryStmt(stmt) == stmt

\* The Query column of []string{m.Name, "", msg}
FailureQuery(stmt) == NoText

\* if execErr != nil { ... continue }
RollbackFailed ==
    /\ pc = "failed"
    /\ \E rbErr \in BOOLEAN :
         /\ txCalls' = [txCalls EXCEPT ![mi] =
                @ \o [k \in 1..Len(FailedCalls) |-> Call(FailedCalls[k], NoText, rbErr)]]
         /\ tableData' = Append(tableData,
                Row(cfg[mi], FailureQuery(StmtText(stmts, si)),
                    IF rbErr THEN <<"exec error", "; rollback error">>
                    ELSE <<"exec error">>))
    /\ pc' = "loop"
    /\ UNCHANGED <<inputVars, mi, script, i, sb, inDollar, stmts, si,
                   results, execErr, rendered, delivered>>

\* A finalisation that commits whatever the flag says.
FinalCallAlwaysCommit(flag) == "Commit"

\* if *commitFlag { tx.Commit() } else { tx.Rollback() }
FinalCall(flag) == IF flag THEN "Commit" ELSE "Rollback"

\* A commit or rollback error after which the results are reported too.
AfterFinalErrorFallThrough == "report"

\* continue, after a commit or rollback error
AfterFinalError == "loop"

FinalError(op) == IF op = "Commit" THEN <<"commit error">> ELSE <<"rollback error">>

Finalize ==
    /\ pc = "finalize"
    /\ \E err \in BOOLEAN :
         LET op == FinalCall(commitFlag)
         IN  /\ txCalls' = [txCalls EXCEPT ![mi] = Append(@, Call(op, NoText, err))]
             /\ IF err
                THEN /\ tableData' = Append(tableData,
                            Row(cfg[mi], NoText, FinalError(op)))
                     /\ pc' = AfterFinalError
                ELSE /\ tableData' = tableData
                     /\ pc' = "report"
    /\ UNCHANGED <<inputVars, mi, script, i, sb, inDollar, stmts, si,
                   results, execErr, rendered, delivered>>

\* for _, qr := range results { tableData = append(...) }
Report ==
    /\ pc = "report"
    /\ tableData' = tableData \o ResultRows(cfg[mi], results)
    /\ pc' = "loop"
    /\ UNCHANGED <<inputVars, mi, txCalls, script, i, sb, inDollar, stmts,
                   si, results, execErr, rendered, delivered>>

\* os.Create, table.Bulk, table.Render
Render ==
    /\ pc = "loop"
    /\ mi = Len(cfg)
    /\ \E ok \in BOOLEAN : rendered' = ok
    /\ pc' = "done"
    /\ UNCHANGED <<inputVars, mi, tableData, txCalls, script, i, sb,
                   inDollar, stmts, si, results, execErr, delivered>>

Next ==
    \/ SelectSQL
    \/ NoSQL
    \/ Open
    \/ Begin
    \/ ScanStep
    \/ Flush
    \/ StepStmt
    \/ ReturnOk
    \/ RollbackFailed
    \/ Finalize
    \/ Report
    \/ Render

Spec == Init /\ [][Next]_vars

\* The runs of one driver, the one lib/pq is: no LastInsertId, RowsAffected.
FairInit == Init /\ driver = [lastInsertId |-> FALSE, rowsAffected |-> TRUE]

\* Every call main makes returns: the loop runs on until the table is written.
FairSpec == FairInit /\ [][Next]_vars /\ WF_vars(Next)

\* ------------------------------------------------- the splitter on its own
\* executeScript entered with a script of at most MaxLen characters, given
\* as a one-line SQL file for a single market.
SplitInit ==
    /\ cfg = <<MY>>
    /\ commitFlag = FALSE
    /\ \E s \in Scripts \cup SampleScripts : sqlFile = <<s>>
    /\ driver = [lastInsertId |-> FALSE, rowsAffected |-> TRUE]
    /\ marketSQLs = parseMarketSQL(sqlFile)
    /\ pc = "scan"
    /\ mi = 1
    /\ tableData = <<>>
    /\ txCalls = [NoCalls EXCEPT ![1] = <<Call("Begin", NoText, FALSE)>>]
    /\ script = SqlTextFor(MY)
    /\ i = 1
    /\ sb = <<>>
    /\ inDollar = FALSE
    /\ stmts = <<>>
    /\ si = 1
    /\ results = <<>>
    /\ execErr = FALSE
    /\ rendered = FALSE
    /\ delivered = <<>>

SplitNext == ScanStep \/ Flush

SplitSpec == SplitInit /\ [][SplitNext]_vars

\* =================================================================== claims
\* What the claims are stated against, written without the scan loop.

\* The scan has ended and stmts is what the splitter produced.
SplitDone == pc = "exec"

Min(S) == CHOOSE x \in S : \A y \in S : x <= y
Max(S) == CHOOSE x \in S : \A y \in S : x >= y

\* s without its leading and trailing whitespace.
Trimmed(s) ==
    LET black == {k \in 1..Len(s) : s[k] \notin SpaceChars}
    IN  IF black = {} THEN <<>> ELSE SubSeq(s, Min(black), Max(black))

\* s without its leading whitespace.
LeftTrimmed(s) ==
    LET black == {k \in 1..Len(s) : s[k] \notin SpaceChars}
    IN  IF black = {} THEN <<>> ELSE SubSeq(s, Min(black), Len(s))

\* The first position of the run of "$" that position p lies in.
RunStart(s, p) == Min({q \in 1..p : \A r \in q..p : s[r] = "$"})

\* A $$ marker starts at p: markers pair up from the start of a run of "$".
MarkerAt(s, p) ==
    /\ p < Len(s)
    /\ s[p] = "$"
    /\ s[p + 1] = "$"
    /\ (p - RunStart(s, p)) % 2 = 0

Markers(s) == {p \in 1..Len(s) : MarkerAt(s, p)}

MarkerCount(s) == Cardinality(Markers(s))

\* The script's markers pair up.
Balanced(s) == MarkerCount(s) % 2 = 0

\* Position p lies between an opening marker and its closing marker
\* (or after an unmatched last one).
InsideVerbatim(s, p) == Cardinality({q \in Markers(s) : q < p}) % 2 = 1

\* The semicolons that are not inside a verbatim region.
Boundaries(s) == {p \in 1..Len(s) : s[p] = ";" /\ ~InsideVerbatim(s, p)}

\* What follows the last boundary.
Remainder(s) ==
    IF Boundaries(s) = {} THEN s ELSE Suffix(s, Max(Boundaries(s)) + 1)

\* The positions of all semicolons.
Semis(s) == {p \in 1..Len(s) : s[p] = ";"}

\* The k-th of the segments that the semicolons of s end.
Segment(s, k) ==
    LET end == CHOOSE p \in Semis(s) : Cardinality({q \in Semis(s) : q <= p}) = k
        before == {q \in Semis(s) : q < end}
        start == IF before = {} THEN 1 ELSE Max(before) + 1
    IN  SubSeq(s, start, end - 1)

\* s is S1; S2; ...; Sn; with n >= 1, no marker and every Si non-empty.
SeparatedForm(s) ==
    /\ s # <<>>
    /\ s[Len(s)] = ";"
    /\ \A p \in 1..Len(s) : s[p] # "$"
    /\ \A k \in 1..Cardinality(Semis(s)) : Segment(s, k) # <<>>

RECURSIVE Concat(_)
Concat(ss) == IF ss = <<>> THEN <<>> ELSE Head(ss) \o Concat(Tail(ss))

\* s without whitespace and without semicolons.
Content(s) == SelectSeq(s, LAMBDA c : c \notin SpaceChars /\ c # ";")

\* C1: in a script whose $$ markers pair up, no statement boundary falls
\* between an opening $$ and its closing $$: every statement the splitter
\* produces holds whole verbatim regions only, and there are exactly as many
\* statements as semicolons outside the regions (plus the unterminated rest).
C1_NoBoundaryInsideVerbatim ==
    (SplitDone /\ Balanced(script)) =>
        /\ \A k \in 1..Len(stmts) : Balanced(stmts[k])
        /\ Len(stmts) = Cardinality(Boundaries(script))
                        + (IF Trimmed(Remainder(script)) = <<>> THEN 0 ELSE 1)

\* C1 witness: $$a;b$$; was split into exactly one statement.
C1_Witness ==
    /\ SplitDone
    /\ script = LineDollar
    /\ Len(stmts) = 1

\* C2 as stated: S1; ...; Sn; yields [trim(S1), ..., trim(Sn)], the
\* statement texts carrying no separator.
C2_StatementsWithoutSeparator ==
    (SplitDone /\ SeparatedForm(script)) =>
        /\ Len(stmts) = Cardinality(Semis(script))
        /\ \A k \in 1..Len(stmts) :
             StmtText(stmts, k) = Trimmed(Segment(script, k))

\* C2 amended: S1; ...; Sn; yields exactly n statements in order, the k-th
\* being Sk without its leading whitespace and still ended by its separator.
C2_StatementsKeepSeparator ==
    (SplitDone /\ SeparatedForm(script)) =>
        /\ Len(stmts) = Cardinality(Semis(script))
        /\ \A k \in 1..Len(stmts) :
             StmtText(stmts, k) = LeftTrimmed(Segment(script, k)) \o <<";">>

\* C2 witness: three padded statements were split.
C2_Witness ==
    /\ SplitDone
    /\ SeparatedForm(script)
    /\ Len(stmts) = 3
    /\ \E k \in 1..3 : Segment(script, k) # LeftTrimmed(Segment(script, k))

\* C4: what follows the last boundary is flushed as one final, trimmed
\* statement when it holds anything but whitespace, and yields no statement
\* otherwise; a script without any separator is one statement.
C4_TrailingContentFlushed ==
    SplitDone =>
        LET rest == Trimmed(Remainder(script))
            n == Cardinality(Boundaries(script))
        IN  IF rest # <<>>
            THEN Len(stmts) = n + 1 /\ stmts[n + 1] = rest
            ELSE Len(stmts) = n

\* C4 witness: a script ending without a separator, its padded rest flushed.
C4_Witness ==
    /\ SplitDone
    /\ Boundaries(script) # {}
    /\ script[Len(script)] = " "
    /\ Trimmed(Remainder(script)) # <<>>
    /\ Len(stmts) = Cardinality(Boundaries(script)) + 1

\* C5: the statements, concatenated in order, hold every character of the
\* script that is neither whitespace nor a separator, once and in order.
C5_NothingLostOrReordered ==
    SplitDone => Content(Concat(stmts)) = Content(script)

\* C5 witness: a script with a marker and two statements was split.
C5_Witness ==
    /\ SplitDone
    /\ Markers(script) # {}
    /\ Len(stmts) >= 2
    /\ Content(script) # <<>>

\* The calls of a transaction that carry a statement.
StmtCalls(calls) == SelectSeq(calls, LAMBDA c : c.op \in {"Query", "Exec"})

\* The calls of a transaction that end it.
FinalCalls(calls) == SelectSeq(calls, LAMBDA c : c.op \in {"Commit", "Rollback"})

Opened(m) == txCalls[m] # <<>>

Finalised(m) == FinalCalls(txCalls[m]) # <<>>

MarketIds == 1..MaxMarkets

\* C3 as stated: no statement that is empty apart from whitespace and the
\* separator is passed to the transaction or appears in the results.
C3_EmptySegmentsDropped ==
    /\ \A m \in MarketIds : \A k \in 1..Len(txCalls[m]) :
         txCalls[m][k].op \in {"Query", "Exec"}
            => Content(txCalls[m][k].stmt) # <<>>
    /\ \A k \in 1..Len(results) : Content(results[k].Stmt) # <<>>
    /\ \A k \in 1..Len(tableData) :
         tableData[k][2] # NoText => Content(tableData[k][2]) # <<>>

\* C6: only the last statement a transaction received can have failed; and
\* when executeScript returns an error, the results are those of the
\* statements sent before the failing one, in order.
C6_ShortCircuitAtFirstFailure ==
    /\ \A m \in MarketIds :
         LET sent == StmtCalls(txCalls[m])
         IN  \A k \in 1..Len(sent) : sent[k].err => k = Len(sent)
    /\ pc = "failed" =>
         LET sent == StmtCalls(txCalls[mi])
         IN  /\ execErr
             /\ sent # <<>>
             /\ sent[Len(sent)].err
             /\ Len(results) = Len(sent) - 1
             /\ \A k \in 1..Len(results) : results[k].Stmt = sent[k].stmt
             /\ Len(sent) <= Len(stmts)
             /\ \A k \in 1..Len(sent) : sent[k].stmt = Trimmed(stmts[k])

\* C6 witness: of three statements the second failed; one result is returned.
C6_Witness ==
    /\ pc = "failed"
    /\ Len(stmts) = 3
    /\ Len(results) = 1
    /\ Len(StmtCalls(txCalls[mi])) = 2

\* Main is not inside the run of market m: it is past it, or between markets.
Exited(m) == m < mi \/ (m = mi /\ pc \in {"loop", "done"})

\* No opened transaction is left without its Commit or Rollback call.
AllEnded == \A m \in MarketIds : Opened(m) => Finalised(m)

\* C7: a transaction that was opened is, once its market's run is left,
\* ended by a Commit or Rollback call (whatever that call returned), and
\* whenever a transaction is open, eventually every opened one is ended.
C7_OpenedTransactionEnded ==
    /\ [](\A m \in MarketIds : (Opened(m) /\ Exited(m)) => Finalised(m))
    /\ ~AllEnded ~> AllEnded

\* C7 witness: a run left after its commit call returned an error.
C7_Witness ==
    /\ pc = "loop"
    /\ mi >= 1
    /\ Opened(mi)
    /\ \E k \in 1..Len(txCalls[mi]) :
         txCalls[mi][k].op = "Commit" /\ txCalls[mi][k].err

RowsOf(name) == SelectSeq(tableData, LAMBDA r : r[1] = name)

\* C9 as stated: when the loop is over, every market of the configuration
\* has at least one row in the report.
C9_EveryMarketHasARow ==
    pc = "done" => \A k \in 1..Len(cfg) : RowsOf(cfg[k]) # <<>>

\* C10: the markets are taken one by one in configuration order, the loop
\* ends only after the last one, and a failure (connect, begin, statement,
\* commit or rollback) adds one row for its market and goes on with the loop.
C10_FailureDoesNotStopTheRun ==
    /\ [](pc = "done" => mi = Len(cfg))
    /\ [][/\ mi' = mi \/ (mi' = mi + 1 /\ pc = "loop" /\ mi < Len(cfg))
          /\ (pc \in {"open", "begin", "failed", "finalize"} /\ pc' # pc
                /\ pc' \notin {"begin", "scan", "report"}) =>
                 /\ pc' = "loop"
                 /\ Len(tableData') = Len(tableData) + 1
                 /\ SubSeq(tableData', 1, Len(tableData)) = tableData
                 /\ tableData'[Len(tableData')][1] = cfg[mi]
                 /\ tableData'[Len(tableData')][2] = NoText]_vars

\* C10 witness: the first market failed to connect, the second one ran and
\* reported a result, and the loop is over.
C10_Witness ==
    /\ pc = "done"
    /\ Len(cfg) = 2
    /\ Len(tableData) >= 2
    /\ tableData[1] = Row(cfg[1], NoText, <<"connect error">>)
    /\ tableData[2][2] # NoText
    /\ Finalised(2)

\* The statement of market m's transaction that failed, if one did.
FailedStmtOf(m) ==
    LET sent == StmtCalls(txCalls[m]) IN sent[Len(sent)].stmt

StmtFailed(m) ==
    LET sent == StmtCalls(txCalls[m]) IN sent # <<>> /\ sent[Len(sent)].err

\* C11 as stated: the row reported for a market whose statement failed
\* carries the text of the failing statement.
C11_FailureRowNamesStatement ==
    \A m \in MarketIds :
        (m <= mi /\ StmtFailed(m) /\ Exited(m)) =>
            \E k \in 1..Len(RowsOf(cfg[m])) :
                RowsOf(cfg[m])[k][2] = FailedStmtOf(m)

\* C11 amended: the row reported for a market whose statement failed has an
\* empty Query column and the message "exec error: <the driver's error>",
\* followed by "; rollback error: ..." exactly when the rollback failed; the
\* text of the failing statement is not attached.
C11_FailureRowHasNoStatement ==
    \A m \in MarketIds :
        (m <= mi /\ StmtFailed(m) /\ Exited(m)) =>
            LET rbErr == FinalCalls(txCalls[m])[1].err
            IN  RowsOf(cfg[m]) =
                  << Row(cfg[m], NoText,
                         IF rbErr THEN <<"exec error", "; rollback error">>
                         ELSE <<"exec error">>) >>

\* C11 witness: the second of three statements failed and its market's row
\* was written.
C11_Witness ==
    /\ pc = "loop"
    /\ mi >= 1
    /\ StmtFailed(mi)
    /\ Len(StmtCalls(txCalls[mi])) = 2
    /\ Len(stmts) = 3
    /\ RowsOf(cfg[mi]) # <<>>

\* The statement calls of the market being processed.
Sent == IF mi \in MarketIds THEN StmtCalls(txCalls[mi]) ELSE <<>>

\* C12 as stated: a statement run through Query always yields a row-set,
\* empty when no row came back; its Data is never nil.
C12_ZeroRowsNotNil ==
    \A k \in 1..Len(results) :
        (k <= Len(Sent) /\ Sent[k].op = "Query") => results[k].Data.kind = "rows"

\* C13: the outcome recorded for a statement run through Exec is exactly one
\* of three: the generated identifier whenever the driver offers it (even if
\* the affected-row count is offered too), else the affected-row count when
\* the driver offers that, else the marker "executed".
C13_ExecOutcomePriority ==
    \A k \in 1..Len(results) :
        (k <= Len(Sent) /\ Sent[k].op = "Exec") =>
            /\ results[k].Data.kind \in {"lastInsertId", "rowsAffected", "executed"}
            /\ driver.lastInsertId => results[k].Data.kind = "lastInsertId"
            /\ (~driver.lastInsertId /\ driver.rowsAffected) =>
                   results[k].Data.kind = "rowsAffected"
            /\ (~driver.lastInsertId /\ ~driver.rowsAffected) =>
                   results[k].Data.kind = "executed"

\* C13 witness: the driver offers both the identifier and the count, and a
\* statement run through Exec recorded the identifier.
C13_Witness ==
    /\ driver.lastInsertId /\ driver.rowsAffected
    /\ \E k \in 1..Len(results) :
          /\ k <= Len(Sent)
          /\ Sent[k].op = "Exec"
          /\ results[k].Data.kind = "lastInsertId"

\* The step sends a statement to the database.
StatementSent == pc = "exec" /\ txCalls' # txCalls

HasScanError(rows) == \E k \in 1..Len(rows) : rows[k] = "scanErr"

\* C14: a row that cannot be scanned does not fail the script: the statement
\* still records a result holding every delivered row, the rows after the bad
\* one included, no error is returned and the loop moves on to the next
\* statement; the script is aborted only when the Query or Exec call itself
\* returned an error.
C14_ScanErrorsAreSoft ==
    /\ [][(StatementSent /\ HasScanError(delivered')) =>
            /\ pc' = "exec"
            /\ execErr' = FALSE
            /\ si' = si + 1
            /\ Len(results') = Len(results) + 1
            /\ results'[Len(results')].Stmt = Sent'[Len(Sent')].stmt
            /\ results'[Len(results')].Data.kind = "rows"
            /\ Len(results'[Len(results')].Data.rows) = Len(delivered')]_vars
    /\ [][(pc = "exec" /\ pc' = "failed") =>
            /\ StatementSent
            /\ Sent'[Len(Sent')].err]_vars
    /\ [](pc = "failed" => (execErr /\ Sent # <<>> /\ Sent[Len(Sent)].err))

\* C14 witness: the first row of a query could not be scanned, the second
\* row was still read, and the statement after the query was executed.
C14_Witness ==
    /\ Len(results) = 2
    /\ Len(Sent) = 2
    /\ Sent[1].op = "Query"
    /\ results[1].Data.kind = "rows"
    /\ results[1].Data.rows = <<"null", "val">>
    /\ ~Sent[2].err

SelectUpper == <<"S", "E", "L", "E", "C", "T">>
SelectLower == <<"s", "e", "l", "e", "c", "t">>

\* The text, leading whitespace aside, starts with the letters of SELECT in
\* any mix of cases.
BeginsWithSelect(s) ==
    LET t == LeftTrimmed(s)
    IN  /\ Len(t) >= 6
        /\ \A k \in 1..6 : t[k] \in {SelectUpper[k], SelectLower[k]}

RowProducingSamples ==
    { <<"s", "e", "l", "e", "c", "t", " ", "*">>,
      <<"S", "E", "L", "E", "C", "T", " ", "1">>,
      <<" ", "\n", "S", "e", "l", "E", "c", "t", "\n", "1">> }

MutatingSamples ==
    { <<"u", "p", "d", "a", "t", "e", " ", "t">>,
      <<"W", "I", "T", "H", " ", "x">>,
      <<"v", "a", "l", "u", "e", "s", " ", "(", "1", ")">>,
      <<"s", "e", "l", "e", "c">>,
      <<"(", "s", "e", "l", "e", "c", "t", " ", "1", ")">> }

\* C15: every statement of the script is sent to the database once, in
\* order, through one call: tx.Query exactly when the statement, leading
\* whitespace and letter case aside, begins with SELECT, and tx.Exec
\* otherwise; statements beginning with UPDATE, WITH or VALUES go to Exec.
C15_OnePathPerStatement ==
    /\ pc \in {"exec", "failed", "finalize", "report"} =>
          /\ Len(Sent) = IF pc = "failed" THEN si ELSE si - 1
          /\ \A k \in 1..Len(Sent) :
                /\ Sent[k].stmt = Trimmed(stmts[k])
                /\ Sent[k].op \in {"Query", "Exec"}
                /\ Sent[k].op = "Query" <=> BeginsWithSelect(stmts[k])
    /\ \A t \in RowProducingSamples : selectRe(t)
    /\ \A t \in MutatingSamples : ~selectRe(t)

\* C15 witness: a script whose first statement is a SELECT in mixed case and
\* whose second is not a SELECT; the first went through Query, the second
\* through Exec.
C15_Witness ==
    /\ pc = "exec"
    /\ Len(stmts) = 2
    /\ Len(Sent) = 2
    /\ BeginsWithSelect(stmts[1]) /\ stmts[1][3] = "L"
    /\ ~BeginsWithSelect(stmts[2])
    /\ Sent[1].op = "Query"
    /\ Sent[2].op = "Exec"

IsPrefix(s, t) == Len(s) <= Len(t) /\ SubSeq(t, 1, Len(s)) = s

\* The statement calls of the current market that returned no error.
Succeeded == SelectSeq(Sent, LAMBDA c : ~c.err)

\* C16: at every point of a market's run the results hold one entry for each
\* statement that has succeeded so far, in script order, the i-th entry
\* carrying the text of the i-th statement sent; a step of the run either
\* leaves the results alone or appends one entry behind the existing ones.
C16_ResultsInScriptOrder ==
    /\ [](pc \in {"exec", "failed", "finalize", "report"} =>
            /\ Len(results) = Len(Succeeded)
            /\ \A k \in 1..Len(results) :
                  /\ results[k].Stmt = Sent[k].stmt
                  /\ results[k].Stmt = Trimmed(stmts[k])
                  /\ ~Sent[k].err)
    /\ [][mi' = mi =>
            /\ IsPrefix(results, results')
            /\ Len(results') <= Len(results) + 1]_vars

\* C16 witness: three different statements have succeeded and their three
\* results are held in the order of the script.
C16_Witness ==
    /\ pc = "exec"
    /\ Len(results) = 3
    /\ results[1].Stmt # results[2].Stmt
    /\ results[2].Stmt # results[3].Stmt
    /\ \A k \in 1..3 : results[k].Stmt = Trimmed(stmts[k])

\* A line of the SQL file that is a tag: "--" followed by a non-blank name.
RefIsTag(line) ==
    LET t == Trimmed(line)
    IN  /\ Len(t) > 2
        /\ t[1] = "-" /\ t[2] = "-"
        /\ Trimmed(SubSeq(t, 3, Len(t))) # <<>>

RefTag(line) == LET t == Trimmed(line) IN Trimmed(SubSeq(t, 3, Len(t)))

\* The tag in force at line k: that of the nearest tag line above it, ALL
\* when there is none.
RefTagAt(k) ==
    LET above == {j \in 1..(k - 1) : RefIsTag(sqlFile[j])}
    IN  IF above = {} THEN ALL ELSE RefTag(sqlFile[Max(above)])

\* The lines of the block tagged `name`.
RefBlock(name) ==
    {k \in 1..Len(sqlFile) : ~RefIsTag(sqlFile[k]) /\ RefTagAt(k) = name}

\* The lines numbered by K, in file order, with a newline between them.
RECURSIVE RefText(_)
RefText(K) ==
    IF K = {} THEN <<>>
    ELSE LET k == Min(K)
         IN  IF K = {k} THEN sqlFile[k]
             ELSE sqlFile[k] \o <<"\n">> \o RefText(K \ {k})

\* The block chosen for a market: its own when the file has one, else ALL's.
RefChosen(name) ==
    IF RefBlock(name) # {} THEN RefBlock(name) ELSE RefBlock(ALL)

Occurs(t, s) ==
    \E a \in 1..(Len(s) - Len(t) + 1) : SubSeq(s, a, a + Len(t) - 1) = t

\* C17: the script run for a market is the block of the SQL file tagged with
\* its name when there is one, and otherwise the ALL block, which holds the
\* lines above the first tag; every statement sent for the market comes from
\* that block; a market with neither block sends nothing to a database and
\* gets the single row "no SQL defined for this market".
C17_ScriptSelection ==
    /\ [][(pc = "loop" /\ mi' = mi + 1) =>
            IF RefChosen(cfg[mi']) = {}
            THEN /\ pc' = "loop"
                 /\ txCalls' = txCalls
                 /\ tableData' = Append(tableData,
                        Row(cfg[mi'], NoText,
                            <<"no SQL defined for this market">>))
            ELSE /\ pc' = "open"
                 /\ script' = RefText(RefChosen(cfg[mi']))
                 /\ tableData' = tableData]_vars
    /\ [][mi' = mi => script' = script]_vars
    /\ [][txCalls' # txCalls =>
            /\ pc \notin {"loop", "done"}
            /\ \A m \in MarketIds : m # mi => txCalls'[m] = txCalls[m]]_vars
    /\ [][StatementSent => Occurs(Sent'[Len(Sent')].stmt, script)]_vars

\* C17 witness: the file has an untagged block and a block tagged MY; the
\* market MY ran a statement of its own block, and the other market of the
\* configuration ran a statement of the untagged block.
C17_Witness ==
    /\ Len(cfg) = 2 /\ mi = 2 /\ pc = "loop"
    /\ RefBlock(MY) # {} /\ RefBlock(ALL) # {}
    /\ \E m \in {1, 2} :
          /\ cfg[m] = MY
          /\ StmtCalls(txCalls[m]) # <<>>
          /\ Occurs(StmtCalls(txCalls[m])[1].stmt, RefText(RefBlock(MY)))
          /\ ~Occurs(StmtCalls(txCalls[m])[1].stmt, RefText(RefBlock(ALL)))
          /\ StmtCalls(txCalls[3 - m]) # <<>>
          /\ Occurs(StmtCalls(txCalls[3 - m])[1].stmt, RefText(RefBlock(ALL)))

\* The number of markers that start before position p is odd.
OddMarkersBefore(s, p) == Cardinality({q \in Markers(s) : q < p}) % 2 = 1

\* C18: a script with an odd number of $$ markers is split like any other.
\* While scanning, the scanner is inside a block exactly when it has passed
\* an odd number of markers, and it never stands on the second "$" of a
\* marker. After the scan of such a script the text from the last unmatched
\* marker to the end of input, semicolons included, is the end of the one
\* final statement, which starts right after the last boundary.
C18_OddMarkersAccepted ==
    /\ pc = "scan" =>
          /\ inDollar = OddMarkersBefore(script, i)
          /\ \A q \in Markers(script) : i # q + 1
    /\ (SplitDone /\ ~Balanced(script)) =>
          LET last == Max(Markers(script))
              tail == Trimmed(Suffix(script, last))
              final == stmts[Len(stmts)]
          IN  /\ inDollar
              /\ stmts # <<>>
              /\ Len(final) >= Len(tail)
              /\ SubSeq(final, Len(final) - Len(tail) + 1, Len(final)) = tail
              /\ final = Trimmed(Remainder(script))
              /\ Len(stmts) = Cardinality(Boundaries(script)) + 1

\* C18 witness: a script with one boundary, then an unmatched marker, then a
\* semicolon; it was split into two statements.
C18_Witness ==
    /\ SplitDone
    /\ ~Balanced(script)
    /\ Boundaries(script) # {}
    /\ \E p \in Semis(script) : p > Max(Markers(script))
    /\ Len(stmts) = 2

\* The transactions begun and not yet committed or rolled back.
OpenTx == {m \in MarketIds : Opened(m) /\ ~Finalised(m)}

\* C19: markets are processed one after another. At every point at most one
\* transaction is open and it is the current market's; every earlier
\* market's transaction has been committed or rolled back; a transaction is
\* begun once and ended at most once, by its last call. A step of the run
\* sends at most one call, on the current market's transaction, and a
\* statement is sent only on a transaction that is open.
C19_OneTransactionAtATime ==
    /\ [](/\ Cardinality(OpenTx) <= 1
          /\ \A m \in OpenTx : m = mi /\ pc \notin {"loop", "done"}
          /\ \A m \in MarketIds :
                (m < mi /\ Opened(m)) => Finalised(m)
          /\ \A m \in MarketIds :
                Opened(m) =>
                   /\ txCalls[m][1].op = "Begin"
                   /\ \A k \in 2..Len(txCalls[m]) : txCalls[m][k].op # "Begin"
                   /\ \A k \in 1..(Len(txCalls[m]) - 1) :
                         txCalls[m][k].op \notin {"Commit", "Rollback"})
    /\ [][txCalls' # txCalls =>
            /\ mi \in MarketIds
            /\ \E c \in {txCalls'[mi][Len(txCalls'[mi])]} :
                  /\ txCalls' = [txCalls EXCEPT ![mi] = Append(@, c)]
                  /\ c.op = "Begin" => OpenTx = {}
                  /\ c.op # "Begin" => OpenTx = {mi}]_vars

\* C19 witness: the first market's transaction ran a statement and was
\* ended, and the second market's transaction is open with a statement sent.
C19_Witness ==
    /\ mi = 2
    /\ OpenTx = {2}
    /\ Finalised(1)
    /\ StmtCalls(txCalls[1]) # <<>>
    /\ StmtCalls(txCalls[2]) # <<>>

\* The commit or rollback that ended market m's transaction failed.
FinalFailed(m) == Finalised(m) /\ FinalCalls(txCalls[m])[1].err

\* The statements of market m's transaction that succeeded.
SucceededOf(m) == SelectSeq(StmtCalls(txCalls[m]), LAMBDA c : ~c.err)

ResultRowsOf(name) == SelectSeq(RowsOf(name), LAMBDA r : r[2] # NoText)

\* C20: a market's part of the report is all or nothing. While the market is
\* being processed it has no row. Once it is left, result rows (rows with a
\* statement in the Query column) exist only if its transaction was
\* committed or rolled back without error after every statement succeeded,
\* and then there is one per statement, in order; if a statement failed or
\* the final call failed, the market has exactly one row, with an empty
\* Query column and an error message, and no result row.
C20_ReportAllOrNothing ==
    \A m \in MarketIds :
        m <= mi =>
            /\ ~Exited(m) => RowsOf(cfg[m]) = <<>>
            /\ ResultRowsOf(cfg[m]) # <<>> =>
                  /\ Finalised(m)
                  /\ ~FinalFailed(m)
                  /\ ~StmtFailed(m)
                  /\ RowsOf(cfg[m]) = ResultRowsOf(cfg[m])
                  /\ Len(RowsOf(cfg[m])) = Len(SucceededOf(m))
                  /\ \A k \in 1..Len(RowsOf(cfg[m])) :
                        RowsOf(cfg[m])[k][2] = SucceededOf(m)[k].stmt
            /\ (Exited(m) /\ (StmtFailed(m) \/ FinalFailed(m))) =>
                  /\ Len(RowsOf(cfg[m])) = 1
                  /\ RowsOf(cfg[m])[1][2] = NoText
                  /\ RowsOf(cfg[m])[1][3] # <<>>
                  /\ ResultRowsOf(cfg[m]) = <<>>

\* C20 witness: two statements of a market succeeded, the commit failed, and
\* the market is left with one row that names no statement.
C20_Witness ==
    /\ mi >= 1
    /\ Exited(mi)
    /\ Len(SucceededOf(mi)) = 2
    /\ ~StmtFailed(mi)
    /\ FinalFailed(mi)
    /\ FinalCalls(txCalls[mi])[1].op = "Commit"
    /\ Len(RowsOf(cfg[mi])) = 1

====
